---- MODULE Spec2Model ----
(***************************************************************************)
(* Booking conflict detection and repeat-booking expansion of the studio   *)
(* booking server: the request handlers of server/routes.ts running over   *)
(* the rooms and bookings tables of DatabaseStorage.  A handler is a       *)
(* sequence of steps, one per storage call it awaits.  Spec serves the     *)
(* requests one at a time, each handler running to completion (the         *)
(* single-request model of the booking core); RaceSpec lets the steps of   *)
(* two requests interleave at every await.                                 *)
(***************************************************************************)
EXTENDS Integers, Sequences, FiniteSets, TLC

\* ------------------------------------------------------------------ bounds
\* Rows the bookings table may hold (its identity column stops there).
MaxBookings == 2

\* Requests in flight at once.
Procs == {1, 2}

\* ---------------------------------------------------------- optional values
\* A body field, a column or a parameter that may be missing (undefined/NULL).
None == <<>>
Some(v) == <<v>>
IsSome(o) == o # None
Val(o) == o[1]
\* JavaScript truthiness of an optional number: present and not 0.
TruthyNum(o) == IsSome(o) /\ Val(o) # 0

\* ------------------------------------------------------------------- dates
\* A date string "2024-MM-dd" is the pair <<MM, dd>>; a Date is the number of
\* its day in 2024 (1 = Monday 1 January), None the Invalid Date.
DaysInMonth(m) == IF m = 2 THEN 29 ELSE IF m = 4 THEN 30 ELSE 31

DaysBefore(m) == IF m = 1 THEN 0 ELSE IF m = 2 THEN 31 ELSE IF m = 3 THEN 60 ELSE 91

parseISO(s) ==
    IF s[1] \in 1..4 /\ s[2] \in 1..DaysInMonth(s[1])
    THEN Some(DaysBefore(s[1]) + s[2])
    ELSE None

format(n) ==
    IF n <= 31 THEN <<1, n>>
    ELSE IF n <= 60 THEN <<2, n - 31>>
    ELSE IF n <= 91 THEN <<3, n - 60>>
    ELSE <<4, n - 91>>

\* differenceInDays(endDate, startDate): NaN (None) when either is invalid.
differenceInDays(e, s) == IF IsSome(e) /\ IsSome(s) THEN Some(Val(e) - Val(s)) ELSE None

addDays(d, i) == d + i

\* getDay(): 0 = Sunday .. 6 = Saturday.
isWeekend(d) == (d % 7) \in {0, 6}

\* ------------------------------------------------------------------- state
VARIABLES
    rooms,      \* the rooms table: a sequence of rows, row k has id k
    bookings,   \* the bookings table: a sequence of rows, row k has id k
    pc,         \* per request slot: the storage call the handler awaits
    req,        \* per request slot: the request being served
    loc,        \* per request slot: the handler's local variables
    resp        \* per request slot: the response sent

vars == <<rooms, bookings, pc, req, loc, resp>>

\* Times of day, ordered as the zero-padded HH:MM values are.
Times == {1, 2}
\* The ids the rooms table hands out.
RoomIds == {1}
BookingIds == 1..MaxBookings

\* The dates requests name: Friday 5 and Saturday 6 January 2024.
ReqDates == {<<1, 5>>, <<1, 6>>}

NoBody ==
    [roomId |-> None, date |-> None, bookingFromTime |-> None,
     bookingToTime |-> None, isCancelled |-> None,
     actualFromTime |-> None, actualToTime |-> None, breakMinutes |-> None,
     customerId |-> None, projectId |-> None, editorId |-> None,
     contactPerson |-> None, status |-> None, remarks |-> None]

NoReq ==
    [kind |-> "none", id |-> 0, body |-> NoBody, ignoreConflict |-> FALSE,
     fromDate |-> <<0, 0>>, toDate |-> <<0, 0>>, repeatPattern |-> "",
     cancelReason |-> ""]

NoLoc ==
    [i |-> 0, daysDiff |-> None, originalBooking |-> None, createdBookings |-> <<>>,
     hasConflict |-> None]

NoResp == [status |-> 0, message |-> "", count |-> 0, bookings |-> <<>>]

Init ==
    /\ rooms = <<>>
    /\ bookings = <<>>
    /\ pc = [p \in Procs |-> "idle"]
    /\ req = [p \in Procs |-> NoReq]
    /\ loc = [p \in Procs |-> NoLoc]
    /\ resp = [p \in Procs |-> NoResp]

\* ------------------------------------------------------------- the storage
Rows(t) == {t[k] : k \in 1..Len(t)}

\* Mutant: the room's flag is never looked at.
RoomNeverIgnoresConflict(rms, roomId) == FALSE

\* const [room] = select from rooms where id = roomId; room?.ignoreConflict
RoomIgnoresConflict(rms, roomId) ==
    \E r \in Rows(rms) : r.id = roomId /\ r.ignoreConflict

\* Mutant: strict comparisons, so windows that only touch do not meet.
OverlapStrict(b, fromTime, toTime) ==
    \/ (b.bookingFromTime < fromTime /\ b.bookingToTime > fromTime)
    \/ (b.bookingFromTime < toTime /\ b.bookingToTime > toTime)
    \/ (b.bookingFromTime >= fromTime /\ b.bookingToTime <= toTime
          /\ b.bookingFromTime < b.bookingToTime)

\* Mutant: the third branch of the or(...) is left out.
OverlapTwoWay(b, fromTime, toTime) ==
    \/ (b.bookingFromTime <= fromTime /\ b.bookingToTime >= fromTime)
    \/ (b.bookingFromTime <= toTime /\ b.bookingToTime >= toTime)

\* The or(...) of the query: the three ways a stored window meets [fromTime, toTime].
OverlapCondition(b, fromTime, toTime) ==
    \/ (b.bookingFromTime <= fromTime /\ b.bookingToTime >= fromTime)
    \/ (b.bookingFromTime <= toTime /\ b.bookingToTime >= toTime)
    \/ (b.bookingFromTime >= fromTime /\ b.bookingToTime <= toTime)

\* Mutant: the query without eq(bookings.isCancelled, false).
ConflictingAnyStatus(bks, roomId, date, fromTime, toTime) ==
    {b \in {bks[k] : k \in 1..Len(bks)} :
        /\ b.roomId = roomId
        /\ b.date = date
        /\ \/ (b.bookingFromTime <= fromTime /\ b.bookingToTime >= fromTime)
           \/ (b.bookingFromTime <= toTime /\ b.bookingToTime >= toTime)
           \/ (b.bookingFromTime >= fromTime /\ b.bookingToTime <= toTime)}

\* Mutant: the query without eq(bookings.roomId, roomId).
ConflictingAnyRoom(bks, roomId, date, fromTime, toTime) ==
    {b \in {bks[k] : k \in 1..Len(bks)} :
        /\ b.date = date
        /\ b.isCancelled = FALSE
        /\ \/ (b.bookingFromTime <= fromTime /\ b.bookingToTime >= fromTime)
           \/ (b.bookingFromTime <= toTime /\ b.bookingToTime >= toTime)
           \/ (b.bookingFromTime >= fromTime /\ b.bookingToTime <= toTime)}

\* select from bookings where conditions
Conflicting(bks, roomId, date, fromTime, toTime) ==
    {b \in Rows(bks) :
        /\ b.roomId = roomId
        /\ b.date = date
        /\ b.isCancelled = FALSE
        /\ OverlapCondition(b, fromTime, toTime)}

\* Mutant: the booking being updated is not filtered out.
Unfiltered(conflicting, excludeId) == conflicting

\* excludeId ? conflicting.filter(b => b.id !== excludeId) : conflicting
Filtered(conflicting, excludeId) ==
    IF TruthyNum(excludeId)
    THEN {b \in conflicting : b.id # Val(excludeId)}
    ELSE conflicting

\* The second half of checkBookingConflict: the query and the filter.
ConflictQuery(bks, roomId, date, fromTime, toTime, excludeId) ==
    Filtered(Conflicting(bks, roomId, date, fromTime, toTime), excludeId) # {}

\* checkBookingConflict evaluated on one state of the two tables.
checkBookingConflict(rms, bks, roomId, date, fromTime, toTime, excludeId) ==
    IF RoomIgnoresConflict(rms, roomId)
    THEN FALSE
    ELSE ConflictQuery(bks, roomId, date, fromTime, toTime, excludeId)

\* insert into bookings values(...) returning: the columns left out take
\* their defaults (breakMinutes 0, status Tentative, isCancelled false, the
\* others NULL).  A nullable column holds None for NULL.  The customers,
\* projects and editors a booking names are taken to exist.
NewBooking(bks, values) ==
    [id |-> Len(bks) + 1,
     roomId |-> Val(values.roomId),
     date |-> Val(values.date),
     bookingFromTime |-> Val(values.bookingFromTime),
     bookingToTime |-> Val(values.bookingToTime),
     actualFromTime |-> values.actualFromTime,
     actualToTime |-> values.actualToTime,
     breakMinutes |-> IF IsSome(values.breakMinutes) THEN values.breakMinutes ELSE Some(0),
     customerId |-> values.customerId,
     projectId |-> values.projectId,
     editorId |-> values.editorId,
     contactPerson |-> values.contactPerson,
     status |-> IF IsSome(values.status) THEN Val(values.status) ELSE "Tentative",
     remarks |-> values.remarks,
     isCancelled |-> IF IsSome(values.isCancelled) THEN Val(values.isCancelled) ELSE FALSE,
     cancelReason |-> None]

\* ------------------------------------------------------------- room routes
\* POST /api/rooms
CreateRoom(ignoreConflict) ==
    /\ Len(rooms) < Cardinality(RoomIds)
    /\ rooms' = Append(rooms, [id |-> Len(rooms) + 1, ignoreConflict |-> ignoreConflict])
    /\ UNCHANGED <<bookings, pc, req, loc, resp>>

\* PUT /api/rooms/:id
UpdateRoom(id, ignoreConflict) ==
    /\ id \in 1..Len(rooms)
    /\ rooms[id].ignoreConflict # ignoreConflict    \* an update that changes nothing is no step
    /\ rooms' = [rooms EXCEPT ![id].ignoreConflict = ignoreConflict]
    /\ UNCHANGED <<bookings, pc, req, loc, resp>>

\* ---------------------------------------------------------------- handlers
\* The state of one request: the storage call its handler awaits (pc), the
\* request, the handler's locals and the response once it has answered.
Slot(p) == [pc |-> pc[p], req |-> req[p], loc |-> loc[p], resp |-> resp[p]]

NewSlot(rq) == [pc |-> "idle", req |-> rq, loc |-> NoLoc, resp |-> NoResp]

Goto(s, nextPc) == [s EXCEPT !.pc = nextPc]

\* res.status(code).json({ message })
Respond(s, code, message) ==
    [s EXCEPT !.pc = "done",
              !.resp = [status |-> code, message |-> message, count |-> 0, bookings |-> <<>>]]

\* res.status(code).json(booking)
RespondBooking(s, code, b) ==
    [s EXCEPT !.pc = "done",
              !.resp = [status |-> code, message |-> "", count |-> 0, bookings |-> <<b>>]]

\* bookingData.roomId && bookingData.date && bookingData.bookingFromTime && bookingData.bookingToTime
HasWindow(body) ==
    /\ TruthyNum(body.roomId)
    /\ IsSome(body.date)
    /\ IsSome(body.bookingFromTime)
    /\ IsSome(body.bookingToTime)

\* insertBookingSchema.parse: the notNull columns without a default must be there.
ParsesAsInsert(body) ==
    /\ IsSome(body.roomId)
    /\ IsSome(body.date)
    /\ IsSome(body.bookingFromTime)
    /\ IsSome(body.bookingToTime)

\* The foreign key bookings.room_id -> rooms.id.
RoomExists(rms, roomId) == \E r \in Rows(rms) : r.id = roomId

\* POST /api/bookings, up to its first await.
CreateArrive(body, ignoreConflict) ==
    LET s == NewSlot([NoReq EXCEPT !.kind = "create", !.body = body,
                                   !.ignoreConflict = ignoreConflict])
    IN  IF ~ignoreConflict /\ HasWindow(body)
        THEN Goto(s, "room")
        ELSE IF ParsesAsInsert(body)
        THEN Goto(s, "insert")
        ELSE Respond(s, 400, "invalid")

\* PUT /api/bookings/:id, up to its first await.
UpdateArrive(id, body, ignoreConflict) ==
    LET s == NewSlot([NoReq EXCEPT !.kind = "update", !.id = id, !.body = body,
                                   !.ignoreConflict = ignoreConflict])
    IN  IF ~ignoreConflict /\ HasWindow(body)
        THEN Goto(s, "room")
        ELSE Goto(s, "update")

\* PUT /api/bookings/:id/cancel, up to its first await.
CancelArrive(id, cancelReason) ==
    Goto(NewSlot([NoReq EXCEPT !.kind = "cancel", !.id = id, !.cancelReason = cancelReason]),
         "cancel")

\* POST /api/bookings/:id/repeat, up to its first await.
RepeatArrive(id, fromDate, toDate, repeatPattern) ==
    Goto(NewSlot([NoReq EXCEPT !.kind = "repeat", !.id = id, !.fromDate = fromDate,
                               !.toDate = toDate, !.repeatPattern = repeatPattern]),
         "get")

\* Mutant: the weekend test is applied whatever the pattern.
SkippedWeekendsAlways(repeatPattern, startDate, i) ==
    \/ isWeekend(addDays(startDate, i))
    \/ (repeatPattern = "weekly" /\ i % 7 # 0)

\* Mutant: only Sunday counts as the weekend.
SkippedSundaysOnly(repeatPattern, startDate, i) ==
    \/ (repeatPattern = "weekdays" /\ addDays(startDate, i) % 7 = 0)
    \/ (repeatPattern = "weekly" /\ i % 7 # 0)

\* Mutant: weekly keeps the Mondays, not every seventh day from fromDate.
SkippedWeeklyByWeekday(repeatPattern, startDate, i) ==
    \/ (repeatPattern = "weekdays" /\ isWeekend(addDays(startDate, i)))
    \/ (repeatPattern = "weekly" /\ addDays(startDate, i) % 7 # 1)

\* The two continue statements of the loop: offset i is skipped.
SkippedByPattern(repeatPattern, startDate, i) ==
    \/ (repeatPattern = "weekdays" /\ isWeekend(addDays(startDate, i)))
    \/ (repeatPattern = "weekly" /\ i % 7 # 0)

\* The offsets from i on that reach the conflict check.
KeptOffsets(rq, daysDiff, i) ==
    IF IsSome(daysDiff) /\ IsSome(parseISO(rq.fromDate))
    THEN {j \in i..Val(daysDiff) :
            ~SkippedByPattern(rq.repeatPattern, Val(parseISO(rq.fromDate)), j)}
    ELSE {}

\* Mutant: the count is that of the dates gone through, created or not.
RespondCountingDates(s) ==
    [s EXCEPT !.pc = "done",
              !.resp = [status |-> 201, message |-> "Created repeat bookings",
                        count |-> Cardinality(KeptOffsets(s.req, s.loc.daysDiff, 0)),
                        bookings |-> s.loc.createdBookings]]

\* res.status(201).json({ message, count, bookings: createdBookings })
RespondCreated(s) ==
    [s EXCEPT !.pc = "done",
              !.resp = [status |-> 201, message |-> "Created repeat bookings",
                        count |-> Len(s.loc.createdBookings),
                        bookings |-> s.loc.createdBookings]]

\* The for loop from offset i: on to the conflict check of the next offset the
\* pattern keeps, or past daysDiff to the 201 response.
RepeatLoop(s, i) ==
    LET kept == KeptOffsets(s.req, s.loc.daysDiff, i)
    IN  IF kept = {}
        THEN RespondCreated(s)
        ELSE Goto([s EXCEPT !.loc.i = CHOOSE j \in kept : \A k \in kept : j <= k], "room")

\* Mutant: the range check is left out.
RepeatGetNoRangeCheck(bks, s) ==
    LET id == s.req.id
        daysDiff == differenceInDays(parseISO(s.req.toDate), parseISO(s.req.fromDate))
    IN  IF id \notin 1..Len(bks)
        THEN Respond(s, 404, "Original booking not found")
        ELSE RepeatLoop([s EXCEPT !.loc.daysDiff = daysDiff,
                                  !.loc.originalBooking = Some(bks[id])], 0)

\* Mutant: a pattern that is none of the three is turned down.
RepeatGetChecksPattern(bks, s) ==
    LET id == s.req.id
        daysDiff == differenceInDays(parseISO(s.req.toDate), parseISO(s.req.fromDate))
    IN  IF id \notin 1..Len(bks)
        THEN Respond(s, 404, "Original booking not found")
        ELSE IF s.req.repeatPattern \notin {"daily", "weekdays", "weekly"}
        THEN Respond(s, 400, "Invalid repeat pattern")
        ELSE IF IsSome(daysDiff) /\ Val(daysDiff) < 0
        THEN Respond(s, 400, "End date must be after start date")
        ELSE RepeatLoop([s EXCEPT !.loc.daysDiff = daysDiff,
                                  !.loc.originalBooking = Some(bks[id])], 0)

\* const originalBooking = await storage.getBooking(id), then the range check.
RepeatGet(bks, s) ==
    LET id == s.req.id
        daysDiff == differenceInDays(parseISO(s.req.toDate), parseISO(s.req.fromDate))
    IN  IF id \notin 1..Len(bks)
        THEN Respond(s, 404, "Original booking not found")
        ELSE IF IsSome(daysDiff) /\ Val(daysDiff) < 0
        THEN Respond(s, 400, "End date must be after start date")
        ELSE RepeatLoop([s EXCEPT !.loc.daysDiff = daysDiff,
                                  !.loc.originalBooking = Some(bks[id])], 0)

\* const dateStr = format(currentDate, "yyyy-MM-dd")
dateStr(s) == format(addDays(Val(parseISO(s.req.fromDate)), s.loc.i))

\* The arguments a handler gives checkBookingConflict.
CheckArgs(s) ==
    IF s.req.kind = "repeat"
    THEN [roomId |-> Val(s.loc.originalBooking).roomId,
          date |-> dateStr(s),
          fromTime |-> Val(s.loc.originalBooking).bookingFromTime,
          toTime |-> Val(s.loc.originalBooking).bookingToTime,
          excludeId |-> None]
    ELSE [roomId |-> Val(s.req.body.roomId),
          date |-> Val(s.req.body.date),
          fromTime |-> Val(s.req.body.bookingFromTime),
          toTime |-> Val(s.req.body.bookingToTime),
          excludeId |-> IF s.req.kind = "update" THEN Some(s.req.id) ELSE None]

\* Mutant: a conflict ends the repeat loop (break where the code goes on).
AfterCheckAbort(s0, hasConflict) ==
    LET s == [s0 EXCEPT !.loc.hasConflict = Some(hasConflict)]
    IN  IF s.req.kind = "repeat"
        THEN IF ~hasConflict
             THEN Goto(s, "insert")
             ELSE RespondCreated(s)
        ELSE IF hasConflict
        THEN Respond(s, 409, "Booking conflict detected for this room and time")
        ELSE IF s.req.kind = "update"
        THEN Goto(s, "update")
        ELSE IF ParsesAsInsert(s.req.body)
        THEN Goto(s, "insert")
        ELSE Respond(s, 400, "invalid")

\* What each handler does with hasConflict.
AfterCheck(s0, hasConflict) ==
    LET s == [s0 EXCEPT !.loc.hasConflict = Some(hasConflict)]
    IN  IF s.req.kind = "repeat"
        THEN IF ~hasConflict
             THEN Goto(s, "insert")
             ELSE RepeatLoop(s, s.loc.i + 1)
        ELSE IF hasConflict
        THEN Respond(s, 409, "Booking conflict detected for this room and time")
        ELSE IF s.req.kind = "update"
        THEN Goto(s, "update")
        ELSE IF ParsesAsInsert(s.req.body)
        THEN Goto(s, "insert")
        ELSE Respond(s, 400, "invalid")

\* Mutant: room.ignoreConflict without the ?., which throws for a room that
\* is not there.
CheckRoomRequiresRoom(rms, s) ==
    IF ~RoomExists(rms, CheckArgs(s).roomId)
    THEN Respond(s, 400, "Cannot read properties of undefined")
    ELSE IF RoomIgnoresConflict(rms, CheckArgs(s).roomId)
    THEN AfterCheck(s, FALSE)
    ELSE Goto(s, "query")

\* checkBookingConflict, first await: the room and its ignoreConflict flag.
CheckRoom(rms, s) ==
    IF RoomIgnoresConflict(rms, CheckArgs(s).roomId)
    THEN AfterCheck(s, FALSE)
    ELSE Goto(s, "query")

\* checkBookingConflict, second await: the query, then the filter.
CheckQuery(bks, s) ==
    LET a == CheckArgs(s)
    IN  AfterCheck(s, ConflictQuery(bks, a.roomId, a.date, a.fromTime, a.toTime, a.excludeId))

\* Mutant: the occurrence takes only the room, the date and the window.
RepeatValuesWindowOnly(s) ==
    LET o == Val(s.loc.originalBooking)
    IN  [NoBody EXCEPT
            !.date = Some(dateStr(s)),
            !.bookingFromTime = Some(o.bookingFromTime),
            !.bookingToTime = Some(o.bookingToTime),
            !.roomId = Some(o.roomId)]

\* Mutant: the occurrence takes the template's isCancelled too.
RepeatValuesWithCancelled(s) ==
    LET o == Val(s.loc.originalBooking)
    IN  [NoBody EXCEPT
            !.date = Some(dateStr(s)),
            !.bookingFromTime = Some(o.bookingFromTime),
            !.bookingToTime = Some(o.bookingToTime),
            !.actualFromTime = o.actualFromTime,
            !.actualToTime = o.actualToTime,
            !.breakMinutes = o.breakMinutes,
            !.customerId = o.customerId,
            !.projectId = o.projectId,
            !.roomId = Some(o.roomId),
            !.editorId = o.editorId,
            !.contactPerson = o.contactPerson,
            !.status = Some(o.status),
            !.remarks = o.remarks,
            !.isCancelled = Some(o.isCancelled)]

\* The object the repeat loop gives storage.createBooking.
RepeatValues(s) ==
    LET o == Val(s.loc.originalBooking)
    IN  [NoBody EXCEPT
            !.date = Some(dateStr(s)),
            !.bookingFromTime = Some(o.bookingFromTime),
            !.bookingToTime = Some(o.bookingToTime),
            !.actualFromTime = o.actualFromTime,
            !.actualToTime = o.actualToTime,
            !.breakMinutes = o.breakMinutes,
            !.customerId = o.customerId,
            !.projectId = o.projectId,
            !.roomId = Some(o.roomId),
            !.editorId = o.editorId,
            !.contactPerson = o.contactPerson,
            !.status = Some(o.status),
            !.remarks = o.remarks]

\* The row storage.createBooking is given.
InsertRow(bks, s) ==
    IF s.req.kind = "repeat"
    THEN NewBooking(bks, RepeatValues(s))
    ELSE NewBooking(bks, s.req.body)

\* A step's result: the bookings table and the request's state after it.
Result(bks, s) == [bookings |-> bks, slot |-> s]

\* Mutant: the insert checks for a conflict again, in one step with the write.
CreateBookingRechecked(rms, bks, s) ==
    LET row == InsertRow(bks, s)
    IN  IF ~RoomExists(rms, row.roomId)
        THEN Result(bks, Respond(s, 400, "foreign key"))
        ELSE IF Len(bks) >= MaxBookings
        THEN Result(bks, Goto(s, "full"))
        ELSE IF ~s.req.ignoreConflict
                /\ checkBookingConflict(rms, bks, row.roomId, row.date, row.bookingFromTime,
                                        row.bookingToTime, None)
        THEN Result(bks, IF s.req.kind = "repeat"
                         THEN RepeatLoop(s, s.loc.i + 1)
                         ELSE Respond(s, 409, "Booking conflict detected for this room and time"))
        ELSE Result(Append(bks, row),
                    IF s.req.kind = "repeat"
                    THEN RepeatLoop([s EXCEPT !.loc.createdBookings = Append(@, row)],
                                    s.loc.i + 1)
                    ELSE RespondBooking(s, 201, row))

\* await storage.createBooking(...), of POST /api/bookings and of the repeat loop.
CreateBooking(rms, bks, s) ==
    LET row == InsertRow(bks, s)
    IN  IF ~RoomExists(rms, row.roomId)
        THEN Result(bks, Respond(s, 400, "foreign key"))
        ELSE IF Len(bks) >= MaxBookings
        THEN Result(bks, Goto(s, "full"))
        ELSE Result(Append(bks, row),
                    IF s.req.kind = "repeat"
                    THEN RepeatLoop([s EXCEPT !.loc.createdBookings = Append(@, row)],
                                    s.loc.i + 1)
                    ELSE RespondBooking(s, 201, row))

\* update bookings set {...booking} where id = id returning
Updated(row, body) ==
    [row EXCEPT
        !.roomId = IF IsSome(body.roomId) THEN Val(body.roomId) ELSE @,
        !.date = IF IsSome(body.date) THEN Val(body.date) ELSE @,
        !.bookingFromTime = IF IsSome(body.bookingFromTime) THEN Val(body.bookingFromTime) ELSE @,
        !.bookingToTime = IF IsSome(body.bookingToTime) THEN Val(body.bookingToTime) ELSE @,
        !.isCancelled = IF IsSome(body.isCancelled) THEN Val(body.isCancelled) ELSE @,
        !.actualFromTime = IF IsSome(body.actualFromTime) THEN body.actualFromTime ELSE @,
        !.actualToTime = IF IsSome(body.actualToTime) THEN body.actualToTime ELSE @,
        !.breakMinutes = IF IsSome(body.breakMinutes) THEN body.breakMinutes ELSE @,
        !.customerId = IF IsSome(body.customerId) THEN body.customerId ELSE @,
        !.projectId = IF IsSome(body.projectId) THEN body.projectId ELSE @,
        !.editorId = IF IsSome(body.editorId) THEN body.editorId ELSE @,
        !.contactPerson = IF IsSome(body.contactPerson) THEN body.contactPerson ELSE @,
        !.status = IF IsSome(body.status) THEN Val(body.status) ELSE @,
        !.remarks = IF IsSome(body.remarks) THEN body.remarks ELSE @]

\* await storage.updateBooking(id, data), of PUT /api/bookings/:id.
UpdateBooking(rms, bks, s) ==
    LET id == s.req.id
    IN  IF id \notin 1..Len(bks)
        THEN Result(bks, Respond(s, 404, "Booking not found"))
        ELSE IF ~RoomExists(rms, Updated(bks[id], s.req.body).roomId)
        THEN Result(bks, Respond(s, 400, "foreign key"))
        ELSE Result([bks EXCEPT ![id] = Updated(@, s.req.body)],
                    RespondBooking(s, 200, Updated(bks[id], s.req.body)))

\* update bookings set isCancelled, cancelReason, status where id = id returning
Cancelled(row, reason) ==
    [row EXCEPT !.isCancelled = TRUE, !.cancelReason = Some(reason), !.status = "Cancelled"]

\* Mutant: the cancelled row is deleted from the table.
CancelBookingDeletes(bks, s) ==
    LET id == s.req.id
    IN  IF id \notin 1..Len(bks)
        THEN Result(bks, Respond(s, 404, "Booking not found"))
        ELSE Result(SubSeq(bks, 1, id - 1) \o SubSeq(bks, id + 1, Len(bks)),
                    RespondBooking(s, 200, Cancelled(bks[id], s.req.cancelReason)))

\* await storage.cancelBooking(id, cancelReason || ""), of PUT /api/bookings/:id/cancel.
CancelBooking(bks, s) ==
    LET id == s.req.id
    IN  IF id \notin 1..Len(bks)
        THEN Result(bks, Respond(s, 404, "Booking not found"))
        ELSE Result([bks EXCEPT ![id] = Cancelled(@, s.req.cancelReason)],
                    RespondBooking(s, 200, Cancelled(bks[id], s.req.cancelReason)))

\* Mutant: the bookings query of the check cancels the rows it finds.
StepOfCheckCancels(rms, bks, s) ==
    CASE s.pc = "get" -> Result(bks, RepeatGet(bks, s))
      [] s.pc = "room" -> Result(bks, CheckRoom(rms, s))
      [] s.pc = "query" ->
            Result([k \in 1..Len(bks) |->
                       IF bks[k] \in Filtered(Conflicting(bks, CheckArgs(s).roomId,
                                                          CheckArgs(s).date,
                                                          CheckArgs(s).fromTime,
                                                          CheckArgs(s).toTime),
                                              CheckArgs(s).excludeId)
                       THEN [bks[k] EXCEPT !.isCancelled = TRUE]
                       ELSE bks[k]],
                   CheckQuery(bks, s))
      [] s.pc = "insert" -> CreateBooking(rms, bks, s)
      [] s.pc = "update" -> UpdateBooking(rms, bks, s)
      [] s.pc = "cancel" -> CancelBooking(bks, s)
      [] OTHER -> Result(bks, s)

\* The storage call a handler awaits returns, and the handler runs on to its
\* next await or to its response.
StepOf(rms, bks, s) ==
    CASE s.pc = "get" -> Result(bks, RepeatGet(bks, s))
      [] s.pc = "room" -> Result(bks, CheckRoom(rms, s))
      [] s.pc = "query" -> Result(bks, CheckQuery(bks, s))
      [] s.pc = "insert" -> CreateBooking(rms, bks, s)
      [] s.pc = "update" -> UpdateBooking(rms, bks, s)
      [] s.pc = "cancel" -> CancelBooking(bks, s)
      [] OTHER -> Result(bks, s)

\* A handler run from the result r of its last step to its response, with no
\* other request in between.
RECURSIVE Run(_, _)
Run(rms, r) ==
    IF r.slot.pc \in {"done", "full"}
    THEN r
    ELSE Run(rms, StepOf(rms, r.bookings, r.slot))

\* ----------------------------------------------------------------- actions
SetSlot(p, s) ==
    /\ pc' = [pc EXCEPT ![p] = s.pc]
    /\ req' = [req EXCEPT ![p] = s.req]
    /\ loc' = [loc EXCEPT ![p] = s.loc]
    /\ resp' = [resp EXCEPT ![p] = s.resp]

AllIdle == \A p \in Procs : pc[p] = "idle"

\* A whole request, from its arrival (arrived: its state at the first await)
\* to its response.
Served(p, arrived) ==
    \E r \in {Run(rooms, Result(bookings, arrived))} :
        /\ r.slot.pc = "done"
        /\ bookings' = r.bookings
        /\ SetSlot(p, r.slot)

\* POST /api/bookings
PostBooking(p, body, ignoreConflict) ==
    /\ AllIdle
    /\ Served(p, CreateArrive(body, ignoreConflict))
    /\ UNCHANGED rooms

\* Mutant: the row is written before the check is made, and a conflict does
\* not take the write back.
PutBookingWritesFirst(p, id, body, ignoreConflict) ==
    /\ AllIdle
    /\ \E r \in {Run(rooms, Result(bookings, UpdateArrive(id, body, ignoreConflict)))} :
          /\ r.slot.pc = "done"
          /\ bookings' = IF id \in 1..Len(bookings)
                            /\ RoomExists(rooms, Updated(bookings[id], body).roomId)
                         THEN [bookings EXCEPT ![id] = Updated(@, body)]
                         ELSE bookings
          /\ SetSlot(p, r.slot)
    /\ UNCHANGED rooms

\* PUT /api/bookings/:id
PutBooking(p, id, body, ignoreConflict) ==
    /\ AllIdle
    /\ Served(p, UpdateArrive(id, body, ignoreConflict))
    /\ UNCHANGED rooms

\* PUT /api/bookings/:id/cancel
PutCancel(p, id, cancelReason) ==
    /\ AllIdle
    /\ Served(p, CancelArrive(id, cancelReason))
    /\ UNCHANGED rooms

\* POST /api/bookings/:id/repeat
PostRepeat(p, id, fromDate, toDate, repeatPattern) ==
    /\ AllIdle
    /\ Served(p, RepeatArrive(id, fromDate, toDate, repeatPattern))
    /\ UNCHANGED rooms

\* The response is out: the slot is free for the next request.
Finish(p) ==
    /\ pc[p] = "done"
    /\ SetSlot(p, NewSlot(NoReq))
    /\ UNCHANGED <<rooms, bookings>>

\* ------------------------------------------------------------------ inputs
Opt(S) == {None} \cup {Some(v) : v \in S}

\* Bodies that carry the whole window.
WindowBodies ==
    {[NoBody EXCEPT !.roomId = Some(r), !.date = Some(d), !.bookingFromTime = Some(f),
                    !.bookingToTime = Some(t)] :
        r \in RoomIds, d \in ReqDates, f \in Times, t \in Times}

\* Bodies with the required roomId left out.
InvalidBodies ==
    {[NoBody EXCEPT !.date = Some(d), !.bookingFromTime = Some(f), !.bookingToTime = Some(f)] :
        d \in ReqDates, f \in Times}

RepeatPatterns == {"daily", "weekdays", "weekly"}

\* ------------------------------------------------------------ next-state
RoomOp ==
    \/ \E ign \in BOOLEAN : CreateRoom(ign)
    \/ \E id \in RoomIds, ign \in BOOLEAN : UpdateRoom(id, ign)

Request(p) ==
    \/ \E body \in WindowBodies \cup InvalidBodies, ign \in BOOLEAN : PostBooking(p, body, ign)
    \/ \E id \in BookingIds, body \in WindowBodies, ign \in BOOLEAN :
          PutBooking(p, id, body, ign)
    \/ \E id \in BookingIds : PutCancel(p, id, "r")
    \/ \E id \in BookingIds, f \in ReqDates, t \in ReqDates, pat \in RepeatPatterns :
          PostRepeat(p, id, f, t, pat)

\* Requests served one at a time, each running to completion before the next.
Next ==
    \/ AllIdle /\ RoomOp
    \/ Request(1)
    \/ Finish(1)

Spec == Init /\ [][Next]_vars

\* ----------------------------------------------------- interleaved requests
\* A request reaches slot p and its handler runs to its first await.
Arrive(p, arrived) ==
    /\ pc[p] = "idle"
    /\ SetSlot(p, arrived)
    /\ UNCHANGED <<rooms, bookings>>

\* The storage call the handler in slot p awaits returns.
AwaitReturns(p) ==
    /\ pc[p] \notin {"idle", "done"}
    /\ \E r \in {StepOf(rooms, bookings, Slot(p))} :
          /\ r.slot.pc # "full"
          /\ bookings' = r.bookings
          /\ SetSlot(p, r.slot)
    /\ UNCHANGED rooms

\* Two requests in flight, their steps interleaved at every await: two creates,
\* or a repeat (in slot 1) and a create.  No room is flagged ignoreConflict and
\* no request carries the override.
RaceNext ==
    \/ CreateRoom(FALSE)
    \/ \E p \in Procs, body \in WindowBodies : Arrive(p, CreateArrive(body, FALSE))
    \/ \E id \in BookingIds, f \in ReqDates, t \in ReqDates :
          Arrive(1, RepeatArrive(id, f, t, "daily"))
    \/ \E p \in Procs : AwaitReturns(p)
    \/ \E p \in Procs : Finish(p)

RaceSpec == Init /\ [][RaceNext]_vars

\* ------------------------------------------------- the dates of a repeat
\* The selection of the occurrence dates alone: the loop of POST
\* /api/bookings/:id/repeat over wider ranges, one step per offset that
\* reaches the conflict check.  The body of the loop (the check and the
\* insert) assigns none of i, daysDiff, startDate and repeatPattern, and is
\* left out here: the tables stay as they are.
ExpandDates ==
    {<<1, d>> : d \in {1, 2, 3, 4, 5, 6, 7, 8, 15, 22, 31}}
        \cup {<<2, 1>>, <<2, 29>>, <<2, 30>>, <<3, 1>>}

\* The dates of the template: a Wednesday and a Saturday.
TemplateDates == {<<1, 3>>, <<1, 6>>}

\* One room and one booking, the template, as POST /api/rooms and POST
\* /api/bookings leave them.
ExpandInit ==
    /\ rooms = <<[id |-> 1, ignoreConflict |-> FALSE]>>
    /\ \E d \in TemplateDates :
          bookings = <<NewBooking(<<>>, [NoBody EXCEPT !.roomId = Some(1), !.date = Some(d),
                                                       !.bookingFromTime = Some(1),
                                                       !.bookingToTime = Some(2)])>>
    /\ pc = [p \in Procs |-> "idle"]
    /\ req = [p \in Procs |-> NoReq]
    /\ loc = [p \in Procs |-> NoLoc]
    /\ resp = [p \in Procs |-> NoResp]

\* The request arrives: const { fromDate, toDate, repeatPattern } = req.body.
ExpandArrive(p, fromDate, toDate, repeatPattern) ==
    /\ AllIdle
    /\ SetSlot(p, RepeatArrive(1, fromDate, toDate, repeatPattern))
    /\ UNCHANGED <<rooms, bookings>>

\* getBooking returns; the range check; the loop up to its first date.
ExpandGet(p) ==
    /\ pc[p] = "get"
    /\ SetSlot(p, RepeatGet(bookings, Slot(p)))
    /\ UNCHANGED <<rooms, bookings>>

\* The body of the loop is over for offset i: i++, and on to the next date.
ExpandBody(p) ==
    /\ pc[p] = "room"
    /\ SetSlot(p, RepeatLoop(Slot(p), loc[p].i + 1))
    /\ UNCHANGED <<rooms, bookings>>

ExpandNext ==
    \/ \E f \in ExpandDates, t \in ExpandDates, pat \in RepeatPatterns :
          ExpandArrive(1, f, t, pat)
    \/ ExpandGet(1)
    \/ ExpandBody(1)
    \/ Finish(1)

ExpandSpec == ExpandInit /\ [][ExpandNext]_vars

\* The same selection for a repeatPattern that is none of the three the loop
\* tests for: another word, the word in another case, and "" for a body whose
\* repeatPattern is empty or missing (neither equals "weekdays" or "weekly").
OtherPatterns == {"monthly", "Weekly", ""}

AnyPatternNext ==
    \/ \E f \in ExpandDates, t \in ExpandDates, pat \in OtherPatterns \cup {"daily"} :
          ExpandArrive(1, f, t, pat)
    \/ ExpandGet(1)
    \/ ExpandBody(1)
    \/ Finish(1)

AnyPatternSpec == ExpandInit /\ [][AnyPatternNext]_vars

\* ------------------------------------------------------- storage failures
\* A storage call may reject instead of returning (the connection to the
\* database is lost, a statement times out).  Each of the handlers awaits its
\* storage calls inside one try block.

\* Mutant: in the repeat loop a failed call is passed over like a conflict.
CatchSkipsDate(s) ==
    IF s.req.kind = "repeat" /\ s.pc \in {"room", "query", "insert"}
    THEN RepeatLoop(s, s.loc.i + 1)
    ELSE Respond(s, 400, "storage failure")

\* catch (error) { res.status(400).json({ message: error.message || ... }) }
Catch(s) == Respond(s, 400, "storage failure")

\* Mutant: the handler's storage calls run in one transaction, which the
\* rejected call rolls back.
AwaitThrowsRollsBack(p) ==
    /\ pc[p] \notin {"idle", "done"}
    /\ SetSlot(p, Catch(Slot(p)))
    /\ bookings' = SelectSeq(bookings,
                             LAMBDA b : \A k \in 1..Len(loc[p].createdBookings) :
                                            loc[p].createdBookings[k].id # b.id)
    /\ UNCHANGED rooms

\* The storage call the handler in slot p awaits rejects; it has written nothing.
AwaitThrows(p) ==
    /\ pc[p] \notin {"idle", "done"}
    /\ SetSlot(p, Catch(Slot(p)))
    /\ UNCHANGED <<rooms, bookings>>

\* Requests are served one after the other; a response stays in its slot
\* until Finish, so that the responses to two requests can be set side by side.
NoneInFlight == \A q \in Procs : pc[q] \in {"idle", "done"}

FailArrive(p, arrived) == NoneInFlight /\ Arrive(p, arrived)

FailBodies ==
    {[NoBody EXCEPT !.roomId = Some(r), !.date = Some(<<1, 5>>),
                    !.bookingFromTime = Some(1), !.bookingToTime = Some(t)] :
        r \in RoomIds, t \in Times}

FailNext ==
    \/ NoneInFlight /\ CreateRoom(FALSE)
    \/ \E p \in Procs, body \in FailBodies \cup {NoBody} :
          FailArrive(p, CreateArrive(body, FALSE))
    \/ \E p \in Procs, id \in BookingIds, body \in FailBodies :
          FailArrive(p, UpdateArrive(id, body, FALSE))
    \/ \E id \in BookingIds, f \in ReqDates, t \in ReqDates :
          FailArrive(1, RepeatArrive(id, f, t, "daily"))
    \/ \E p \in Procs : AwaitReturns(p)
    \/ \E p \in Procs : AwaitThrows(p)
    \/ \E p \in Procs : Finish(p)

FailSpec == Init /\ [][FailNext]_vars

\* A repeat request at a time, from one room and one template, with storage
\* calls that may reject at any await of the loop.
BatchNext ==
    \/ \E f \in ReqDates, t \in ReqDates, pat \in RepeatPatterns :
          FailArrive(1, RepeatArrive(1, f, t, pat))
    \/ AwaitReturns(1)
    \/ AwaitThrows(1)
    \/ Finish(1)

BatchSpec == ExpandInit /\ [][BatchNext]_vars

\* ------------------------------------------- bookings with every column
\* Requests served one at a time, as in Spec, for bookings that carry the
\* columns a repeat copies: two sets of values that differ in every column,
\* and the body that leaves them all to their defaults.
Details ==
    {[NoBody EXCEPT !.actualFromTime = Some(1), !.actualToTime = Some(2),
                    !.breakMinutes = Some(15), !.customerId = Some(1),
                    !.projectId = Some(1), !.editorId = Some(1),
                    !.contactPerson = Some("a"), !.status = Some("Confirmed"),
                    !.remarks = Some("x")],
     [NoBody EXCEPT !.actualFromTime = Some(2), !.actualToTime = Some(1),
                    !.breakMinutes = Some(30), !.customerId = Some(2),
                    !.projectId = Some(2), !.editorId = Some(2),
                    !.contactPerson = Some("b"), !.status = Some("Planning"),
                    !.remarks = Some("y")],
     NoBody}

DetailedBodies ==
    {[b EXCEPT !.roomId = Some(r), !.date = Some(d), !.bookingFromTime = Some(1),
               !.bookingToTime = Some(2)] :
        b \in Details, r \in RoomIds, d \in ReqDates}

CopyNext ==
    \/ AllIdle /\ \E ign \in BOOLEAN : CreateRoom(ign)
    \/ \E body \in DetailedBodies, ign \in BOOLEAN : PostBooking(1, body, ign)
    \/ \E id \in BookingIds : PutCancel(1, id, "r")
    \/ \E id \in BookingIds, f \in ReqDates, t \in ReqDates, pat \in RepeatPatterns :
          PostRepeat(1, id, f, t, pat)
    \/ Finish(1)

CopySpec == Init /\ [][CopyNext]_vars

\* ------------------------------------------------------ a wider day
\* The conflict check of POST /api/bookings against one stored booking, over
\* four times of day: every stored window against every window asked for.
WideTimes == {1, 2, 3, 4}

WideBody(fromTime, toTime) ==
    [NoBody EXCEPT !.roomId = Some(1), !.date = Some(<<1, 5>>),
                   !.bookingFromTime = Some(fromTime), !.bookingToTime = Some(toTime)]

\* One room, not flagged, and one booking, as POST /api/rooms and POST
\* /api/bookings leave them.
OverlapInit ==
    /\ rooms = <<[id |-> 1, ignoreConflict |-> FALSE]>>
    /\ \E f \in WideTimes, t \in WideTimes : bookings = <<NewBooking(<<>>, WideBody(f, t))>>
    /\ pc = [p \in Procs |-> "idle"]
    /\ req = [p \in Procs |-> NoReq]
    /\ loc = [p \in Procs |-> NoLoc]
    /\ resp = [p \in Procs |-> NoResp]

OverlapNext ==
    \/ \E f \in WideTimes, t \in WideTimes : PostBooking(1, WideBody(f, t), FALSE)
    \/ Finish(1)

OverlapSpec == OverlapInit /\ [][OverlapNext]_vars

\* ------------------------------------------------ the check on two rooms
\* checkBookingConflict as POST /api/bookings and PUT /api/bookings/:id call
\* it, over two rooms, two dates and every window of two times of day, against
\* two stored bookings.
DetectRooms == {1, 2}

DetectBodies ==
    {[NoBody EXCEPT !.roomId = Some(r), !.date = Some(d), !.bookingFromTime = Some(f),
                    !.bookingToTime = Some(t)] :
        r \in DetectRooms, d \in ReqDates, f \in Times, t \in Times}

\* Two rooms, the first not flagged, and two bookings: one in room 1 on 5
\* January, live or cancelled, and one in either room on either date, as POST
\* /api/rooms, POST /api/bookings (with the override where the windows meet)
\* and PUT /api/bookings/:id/cancel leave them.
DetectInit ==
    /\ \E ign \in BOOLEAN :
          rooms = <<[id |-> 1, ignoreConflict |-> FALSE], [id |-> 2, ignoreConflict |-> ign]>>
    /\ \E a \in {b \in DetectBodies : b.roomId = Some(1) /\ b.date = Some(<<1, 5>>)},
          b \in DetectBodies, cancelled \in BOOLEAN :
          bookings = <<IF cancelled THEN Cancelled(NewBooking(<<>>, a), "r")
                       ELSE NewBooking(<<>>, a),
                       NewBooking(<<a>>, b)>>
    /\ pc = [p \in Procs |-> "idle"]
    /\ req = [p \in Procs |-> NoReq]
    /\ loc = [p \in Procs |-> NoLoc]
    /\ resp = [p \in Procs |-> NoResp]

\* Creates, and updates of the second booking, none with the override.
DetectNext ==
    \/ \E body \in DetectBodies : PostBooking(1, body, FALSE)
    \/ \E body \in DetectBodies : PutBooking(1, 2, body, FALSE)
    \/ Finish(1)

DetectSpec == DetectInit /\ [][DetectNext]_vars

\* -------------------------------------------------- no override anywhere
\* Requests served one at a time, from empty tables, where nothing asks for a
\* conflict to be ignored: the room is not flagged, no request carries
\* ignoreConflict, and no window ends before it starts.  PUT /api/bookings/:id
\* takes the bodies insertBookingSchema.partial() accepts: the whole window,
\* the date alone, the two times alone, or isCancelled alone.
OrderedBodies ==
    {b \in WindowBodies : Val(b.bookingFromTime) <= Val(b.bookingToTime)}

PartialBodies ==
    {[NoBody EXCEPT !.date = Some(d)] : d \in ReqDates}
        \cup {[NoBody EXCEPT !.bookingFromTime = Some(w[1]), !.bookingToTime = Some(w[2])] :
                 w \in {v \in Times \X Times : v[1] <= v[2]}}
        \cup {[NoBody EXCEPT !.isCancelled = Some(FALSE)]}

PlainNext ==
    \/ AllIdle /\ CreateRoom(FALSE)
    \/ \E body \in OrderedBodies : PostBooking(1, body, FALSE)
    \/ \E id \in BookingIds, body \in OrderedBodies \cup PartialBodies :
          PutBooking(1, id, body, FALSE)
    \/ \E id \in BookingIds : PutCancel(1, id, "r")
    \/ \E id \in BookingIds, f \in ReqDates, t \in ReqDates :
          PostRepeat(1, id, f, t, "daily")
    \/ Finish(1)

PlainSpec == Init /\ [][PlainNext]_vars

\* ------------------------------------------------------------- properties
Live(b) == b.isCancelled = FALSE

\* Closed-interval overlap of a stored window with [fromTime, toTime].
ClosedOverlap(b, fromTime, toTime) ==
    b.bookingFromTime <= toTime /\ b.bookingToTime >= fromTime

SameWindow(a, b) ==
    /\ a.roomId = b.roomId
    /\ a.date = b.date
    /\ a.bookingFromTime = b.bookingFromTime
    /\ a.bookingToTime = b.bookingToTime

Done(p, kind) == pc[p] = "done" /\ req[p].kind = kind

\* The ids of the rows a response carries.
RespIds(p) == {resp[p].bookings[k].id : k \in 1..Len(resp[p].bookings)}

\* A create or update that asked for the conflict check.
\* (In C1 to C4 the tables are examined whenever no request is being served:
\* a request served changes the tables in its one step, so these are all the
\* tables there are; what a handler got from the check is examined at its
\* response.)
Checked(p) == ~req[p].ignoreConflict /\ HasWindow(req[p].body)

\* C1: in a room flagged ignoreConflict, checkBookingConflict returns false for
\* every date, window and excludeId, whatever the bookings table holds, and no
\* handler ever gets hasConflict = true for such a room.
C1_OverrideRoomNeverConflicts ==
    /\ \A r \in Rows(rooms) : (AllIdle /\ r.ignoreConflict) =>
          \A d \in ReqDates, f \in Times, t \in Times, ex \in Opt(BookingIds) :
              ~checkBookingConflict(rooms, bookings, r.id, d, f, t, ex)
    /\ \A p \in Procs :
          (pc[p] = "done" /\ IsSome(loc[p].hasConflict)
              /\ RoomIgnoresConflict(rooms, CheckArgs(Slot(p)).roomId))
          => loc[p].hasConflict = Some(FALSE)

\* A create without the override went through in a flagged room that already
\* held a live booking with exactly the same window.
C1_Witness ==
    \E p \in Procs :
        /\ Done(p, "create") /\ Checked(p) /\ resp[p].status = 201
        /\ RoomIgnoresConflict(rooms, Val(req[p].body.roomId))
        /\ loc[p].hasConflict = Some(FALSE)
        /\ \E a \in Rows(bookings) :
              a.id \notin RespIds(p) /\ Live(a) /\ SameWindow(a, resp[p].bookings[1])

\* C2: while a live booking A sits in a room that is not flagged, every window
\* that meets A's under closed-interval semantics is reported as a conflict by
\* checkBookingConflict, and a create for it without the override answers 409.
C2_OverlapIsReported ==
    /\ \A a \in Rows(bookings) :
          (AllIdle /\ Live(a) /\ ~RoomIgnoresConflict(rooms, a.roomId)) =>
              \A f \in Times, t \in Times :
                  ClosedOverlap(a, f, t) =>
                      checkBookingConflict(rooms, bookings, a.roomId, a.date, f, t, None)
    /\ \A p \in Procs :
          (Done(p, "create") /\ Checked(p)
              /\ ~RoomIgnoresConflict(rooms, Val(req[p].body.roomId))
              /\ \E a \in Rows(bookings) :
                    /\ a.id \notin RespIds(p)
                    /\ Live(a)
                    /\ a.roomId = Val(req[p].body.roomId)
                    /\ a.date = Val(req[p].body.date)
                    /\ ClosedOverlap(a, Val(req[p].body.bookingFromTime),
                                     Val(req[p].body.bookingToTime)))
          => (resp[p].status = 409 /\ loc[p].hasConflict = Some(TRUE))

\* A create was answered 409 for a window that starts exactly when a live
\* booking of the same room and date ends.
C2_Witness ==
    \E p \in Procs :
        /\ Done(p, "create") /\ Checked(p) /\ resp[p].status = 409
        /\ \E a \in Rows(bookings) :
              /\ Live(a)
              /\ a.roomId = Val(req[p].body.roomId)
              /\ a.date = Val(req[p].body.date)
              /\ a.bookingFromTime < a.bookingToTime
              /\ a.bookingToTime = Val(req[p].body.bookingFromTime)

\* Every booking stored for the room and date, other than those in ids, is cancelled.
AllCancelled(roomId, date, ids) ==
    \A b \in Rows(bookings) :
        (b.roomId = roomId /\ b.date = date /\ b.id \notin ids) => b.isCancelled

\* C3: when every booking stored for a room and date is cancelled,
\* checkBookingConflict returns false there for every window, and a create for
\* that room and date without the override is accepted.
C3_CancelledNeverConflict ==
    /\ \A r \in RoomIds, d \in ReqDates :
          (AllIdle /\ AllCancelled(r, d, {})) =>
              \A f \in Times, t \in Times, ex \in Opt(BookingIds) :
                  ~checkBookingConflict(rooms, bookings, r, d, f, t, ex)
    /\ \A p \in Procs :
          (Done(p, "create") /\ Checked(p)
              /\ RoomExists(rooms, Val(req[p].body.roomId))
              /\ AllCancelled(Val(req[p].body.roomId), Val(req[p].body.date), RespIds(p)))
          => resp[p].status = 201

\* A create without the override went through, in a room that is not flagged,
\* with the window of a booking that cancelBooking had cancelled.
C3_Witness ==
    \E p \in Procs :
        /\ Done(p, "create") /\ Checked(p) /\ resp[p].status = 201
        /\ ~RoomIgnoresConflict(rooms, Val(req[p].body.roomId))
        /\ \E a \in Rows(bookings) :
              /\ a.id \notin RespIds(p)
              /\ a.isCancelled /\ a.cancelReason = Some("r")
              /\ SameWindow(a, resp[p].bookings[1])

\* Some other live booking of the room and date meets the window (in any of
\* the three ways the query tests).
OtherOverlaps(roomId, date, fromTime, toTime, id) ==
    \E y \in Rows(bookings) :
        /\ y.id # id
        /\ y.roomId = roomId
        /\ y.date = date
        /\ Live(y)
        /\ OverlapCondition(y, fromTime, toTime)

\* C4: with excludeId = X.id, checkBookingConflict for X's room and date returns
\* true only if a live booking other than X overlaps the window, and an update
\* is answered 409 only if a live booking other than the one updated overlaps
\* the window it asks for.
C4_SelfExclusion ==
    /\ AllIdle =>
          \A x \in Rows(bookings), f \in Times, t \in Times :
              checkBookingConflict(rooms, bookings, x.roomId, x.date, f, t, Some(x.id))
                  => OtherOverlaps(x.roomId, x.date, f, t, x.id)
    /\ \A p \in Procs :
          (Done(p, "update") /\ resp[p].status = 409)
          => OtherOverlaps(Val(req[p].body.roomId), Val(req[p].body.date),
                           Val(req[p].body.bookingFromTime),
                           Val(req[p].body.bookingToTime), req[p].id)

\* An update of a live booking X, in a room that is not flagged, was accepted
\* without the override although X's own stored window meets the window asked for.
C4_Witness ==
    \E p \in Procs :
        /\ Done(p, "update") /\ Checked(p) /\ resp[p].status = 200
        /\ loc[p].hasConflict = Some(FALSE)
        /\ \E x \in Rows(bookings) :
              /\ x.id = req[p].id /\ Live(x)
              /\ ~RoomIgnoresConflict(rooms, x.roomId)
              /\ checkBookingConflict(rooms, bookings, x.roomId, x.date,
                                      x.bookingFromTime, x.bookingToTime, None)
              /\ ~checkBookingConflict(rooms, bookings, x.roomId, x.date,
                                       x.bookingFromTime, x.bookingToTime, Some(x.id))

\* Two live bookings of one room and date whose windows meet.
DoubleBooked(a, b) ==
    /\ a.id # b.id
    /\ a.roomId = b.roomId
    /\ a.date = b.date
    /\ Live(a) /\ Live(b)
    /\ ClosedOverlap(a, b.bookingFromTime, b.bookingToTime)

\* C5: the conflict check and the insert are separate steps: once a handler's
\* check has passed, its createBooking inserts the row whatever another request
\* has inserted in between, so two overlapping live bookings can be stored
\* without any override.
C5_InsertNotRechecked ==
    [][\A p \in Procs :
          (pc[p] = "insert" /\ pc'[p] # "insert"
              /\ RoomExists(rooms, InsertRow(bookings, Slot(p)).roomId))
          => bookings' = Append(bookings, InsertRow(bookings, Slot(p)))]_vars

\* Two creates without the override, both checks returned false, both rows
\* inserted: two overlapping live bookings in a room that is not flagged.
C5_Witness ==
    /\ \A p \in Procs :
          /\ Done(p, "create") /\ Checked(p) /\ resp[p].status = 201
          /\ loc[p].hasConflict = Some(FALSE)
    /\ \A r \in Rows(rooms) : ~r.ignoreConflict
    /\ DoubleBooked(resp[1].bookings[1], resp[2].bookings[1])
    /\ RespIds(1) \cup RespIds(2) \subseteq {b.id : b \in Rows(bookings)}

\* toDate is before fromDate.
RangeInverted(rq) ==
    /\ IsSome(parseISO(rq.fromDate)) /\ IsSome(parseISO(rq.toDate))
    /\ Val(parseISO(rq.toDate)) < Val(parseISO(rq.fromDate))

\* C6: a repeat request whose template id does not resolve is answered 404
\* (original not found), one whose template resolves and whose toDate is before
\* fromDate is answered 400 (invalid range), and a repeat request answered with
\* either error has inserted nothing: the bookings table is as it was.
C6_RejectedRepeatInsertsNothing ==
    [][\A p \in Procs :
          (pc[p] = "idle" /\ pc'[p] = "done" /\ req'[p].kind = "repeat")
          => /\ (req'[p].id \notin 1..Len(bookings))
                   => (resp'[p].status = 404
                       /\ resp'[p].message = "Original booking not found")
             /\ (req'[p].id \in 1..Len(bookings) /\ RangeInverted(req'[p]))
                   => (resp'[p].status = 400
                       /\ resp'[p].message = "End date must be after start date")
             /\ (resp'[p].status # 201)
                   => (bookings' = bookings /\ resp'[p].bookings = <<>>
                       /\ loc'[p].createdBookings = <<>>)]_vars

\* A repeat request over an inverted range, for a template that exists, was
\* answered with the invalid-range error.
C6_Witness ==
    \E p \in Procs :
        /\ Done(p, "repeat") /\ RangeInverted(req[p])
        /\ req[p].id \in 1..Len(bookings)
        /\ resp[p].status = 400
        /\ resp[p].message = "End date must be after start date"

\* The rows a repeat request has created, and the date of offset j.
CreatedRows(p) == {resp[p].bookings[k] : k \in 1..Len(resp[p].bookings)}

OffsetDate(rq, j) == format(addDays(Val(parseISO(rq.fromDate)), j))

\* A live booking that was there before the request in slot p meets the
\* template's window in the template's room on date d.
TemplateBlocked(p, d) ==
    LET o == Val(loc[p].originalBooking)
    IN  \E b \in Rows(bookings) :
            /\ b.id \notin RespIds(p)
            /\ b.roomId = o.roomId
            /\ b.date = d
            /\ Live(b)
            /\ OverlapCondition(b, o.bookingFromTime, o.bookingToTime)

\* C7: a repeat request goes through all of its dates: every date the pattern
\* keeps on which no live booking meets the template's window in the template's
\* room gets a booking, however many earlier dates were skipped for a conflict;
\* a date skipped for a conflict gets none, at the template's time or another.
C7_ConflictDoesNotAbortBatch ==
    \A p \in Procs :
        (Done(p, "repeat") /\ resp[p].status = 201) =>
            LET o == Val(loc[p].originalBooking)
            IN  /\ \A j \in KeptOffsets(req[p], loc[p].daysDiff, 0) :
                      LET d == OffsetDate(req[p], j)
                      IN  /\ ~TemplateBlocked(p, d) =>
                                \E c \in CreatedRows(p) :
                                    c.date = d /\ c \in Rows(bookings)
                          /\ (TemplateBlocked(p, d) /\ ~RoomIgnoresConflict(rooms, o.roomId))
                                => ~\E c \in CreatedRows(p) : c.date = d
                /\ \A c \in CreatedRows(p) :
                      /\ c.roomId = o.roomId
                      /\ c.bookingFromTime = o.bookingFromTime
                      /\ c.bookingToTime = o.bookingToTime

\* A repeat request skipped its first date for a conflict and created the
\* booking of its second date.
C7_Witness ==
    \E p \in Procs :
        /\ Done(p, "repeat") /\ resp[p].status = 201
        /\ KeptOffsets(req[p], loc[p].daysDiff, 0) = {0, 1}
        /\ TemplateBlocked(p, OffsetDate(req[p], 0))
        /\ ~RoomIgnoresConflict(rooms, Val(loc[p].originalBooking).roomId)
        /\ Len(resp[p].bookings) = 1
        /\ resp[p].bookings[1].date = OffsetDate(req[p], 1)
        /\ resp[p].bookings[1] \in Rows(bookings)

\* The dates of the items of a repeat response, in the order returned.
ItemDates(p) == [k \in 1..Len(resp[p].bookings) |-> resp[p].bookings[k].date]

\* The dates the pattern keeps, in ascending order.
RECURSIVE KeptDates(_, _, _)
KeptDates(rq, daysDiff, i) ==
    LET kept == KeptOffsets(rq, daysDiff, i)
    IN  IF kept = {}
        THEN <<>>
        ELSE LET j == CHOOSE x \in kept : \A y \in kept : x <= y
             IN  <<OffsetDate(rq, j)>> \o KeptDates(rq, daysDiff, j + 1)

\* C8 as stated: the outcome of a successful repeat request has one entry for
\* every date the pattern keeps, in ascending date order, a date that
\* conflicted being there as Skipped.
C8_OneEntryPerDate ==
    \A p \in Procs :
        (Done(p, "repeat") /\ resp[p].status = 201) =>
            ItemDates(p) = KeptDates(req[p], loc[p].daysDiff, 0)

\* C9 as stated: when every date a repeat request generates conflicts with an
\* existing booking, the count is 0, nothing is inserted, and the outcome has a
\* Skipped entry for every generated date.
C9_AllConflictAllSkipped ==
    \A p \in Procs :
        (Done(p, "repeat") /\ resp[p].status = 201
            /\ ~RoomIgnoresConflict(rooms, Val(loc[p].originalBooking).roomId)
            /\ \A j \in KeptOffsets(req[p], loc[p].daysDiff, 0) :
                  TemplateBlocked(p, OffsetDate(req[p], j)))
        => /\ resp[p].count = 0
           /\ loc[p].createdBookings = <<>>
           /\ ItemDates(p) = KeptDates(req[p], loc[p].daysDiff, 0)

\* C10 as stated: a repeat request leaves its template as it was and creates no
\* booking in the template's room on the template's own date with the
\* template's window.
C10_TemplateNotDuplicated ==
    \A p \in Procs :
        (Done(p, "repeat") /\ IsSome(loc[p].originalBooking)) =>
            /\ bookings[req[p].id] = Val(loc[p].originalBooking)
            /\ ~\E c \in CreatedRows(p) : SameWindow(c, Val(loc[p].originalBooking))

\* ------------------------------------------------ the calendar, by itself
\* The dates of January to March 2024, and their order.
AllDates == {<<m, d>> : m \in 1..3, d \in 1..31} \ {<<2, 30>>, <<2, 31>>}

Before(a, b) == a[1] < b[1] \/ (a[1] = b[1] /\ a[2] < b[2])

\* The number of a date, counted from Monday 1 January on, and back.
DayIndexOf == [d \in AllDates |-> Cardinality({e \in AllDates : Before(e, d)}) + 1]

Calendar == [k \in 1..Cardinality(AllDates) |-> CHOOSE d \in AllDates : DayIndexOf[d] = k]

IsDate(d) == d \in AllDates

DayIndex(d) == DayIndexOf[d]

\* The date i days after date d.
PlusDays(d, i) == Calendar[DayIndex(d) + i]

\* The offsets n with from + n days = to: one offset when to is not before
\* from, none when it is (or when one of them is no date).
SpanOf(from, to) ==
    IF IsDate(from) /\ IsDate(to)
    THEN {n \in 0..91 : DayIndex(from) + n = DayIndex(to)}
    ELSE {}

\* 0 = Monday .. 6 = Sunday.
WeekdayOf(d) == (DayIndex(d) - 1) % 7

\* A step of the loop in slot p, and the offset it starts after.
LoopStep(p) ==
    /\ pc[p] \in {"get", "room"}
    /\ req[p].kind = "repeat"
    /\ <<pc[p], loc[p]>> # <<pc'[p], loc'[p]>>

AfterOffset(p) == IF pc[p] = "get" THEN 0 ELSE loc[p].i + 1

\* A step of the loop over a range of n + 1 days goes to the first offset
\* from AfterOffset on that Included keeps, with the date of that offset, and
\* ends the loop with the 201 response when there is none.
SelectsNext(p, n, Included(_)) ==
    /\ pc'[p] \in {"room", "done"}
    /\ pc'[p] = "room" =>
          /\ loc'[p].i \in AfterOffset(p)..n
          /\ Included(loc'[p].i)
          /\ \A k \in AfterOffset(p)..(loc'[p].i - 1) : ~Included(k)
          /\ dateStr([req |-> req'[p], loc |-> loc'[p]])
                = PlusDays(req[p].fromDate, loc'[p].i)
    /\ pc'[p] = "done" =>
          /\ resp'[p].status = 201
          /\ \A k \in AfterOffset(p)..n : ~Included(k)

EveryOffset(k) == TRUE

\* C11: with pattern daily and toDate not before fromDate, the loop reaches the
\* conflict check with fromDate + i days for i = 0, 1, ..., toDate - fromDate,
\* each once and in this order, and then ends: one candidate per calendar day.
C11_DailyEveryDay ==
    [][\A p \in Procs : \A n \in SpanOf(req[p].fromDate, req[p].toDate) :
          (LoopStep(p) /\ req[p].repeatPattern = "daily")
          => SelectsNext(p, n, EveryOffset)]_vars

\* The third and last candidate of 2024-01-01 .. 2024-01-03 daily.
C11_Witness ==
    \E p \in Procs :
        /\ pc[p] = "room" /\ req[p].repeatPattern = "daily"
        /\ req[p].fromDate = <<1, 1>> /\ req[p].toDate = <<1, 3>>
        /\ loc[p].i = 2 /\ loc[p].daysDiff = Some(2)
        /\ dateStr(Slot(p)) = <<1, 3>>

\* C12: with pattern weekdays the loop reaches the conflict check with exactly
\* the dates of fromDate .. toDate that fall on Monday to Friday, in order:
\* never with a Saturday or a Sunday, and with every other day of the range.
C12_WeekdaysMondayToFriday ==
    [][\A p \in Procs : \A n \in SpanOf(req[p].fromDate, req[p].toDate) :
          (LoopStep(p) /\ req[p].repeatPattern = "weekdays")
          => LET MondayToFriday(k) == WeekdayOf(PlusDays(req[p].fromDate, k)) \in 0..4
             IN  SelectsNext(p, n, MondayToFriday)]_vars

\* The fifth and last candidate of Monday 2024-01-01 .. Sunday 2024-01-07
\* weekdays: Friday 2024-01-05.
C12_Witness ==
    \E p \in Procs :
        /\ pc[p] = "room" /\ req[p].repeatPattern = "weekdays"
        /\ req[p].fromDate = <<1, 1>> /\ req[p].toDate = <<1, 7>>
        /\ loc[p].i = 4 /\ loc[p].daysDiff = Some(6)
        /\ dateStr(Slot(p)) = <<1, 5>>

\* C13: with pattern weekly the loop reaches the conflict check with exactly
\* the offsets i of the range with i mod 7 = 0, in order; each such date has
\* the weekday of fromDate; the date of the template plays no part.
C13_WeeklyEverySeventhDay ==
    [][\A p \in Procs : \A n \in SpanOf(req[p].fromDate, req[p].toDate) :
          (LoopStep(p) /\ req[p].repeatPattern = "weekly")
          => LET EverySeventh(k) == k % 7 = 0
             IN  /\ SelectsNext(p, n, EverySeventh)
                 /\ pc'[p] = "room" =>
                       WeekdayOf(dateStr([req |-> req'[p], loc |-> loc'[p]]))
                           = WeekdayOf(req[p].fromDate)]_vars

\* The fourth and last candidate of 2024-01-01 .. 2024-01-22 weekly, for a
\* template that falls on another weekday than fromDate.
C13_Witness ==
    \E p \in Procs :
        /\ pc[p] = "room" /\ req[p].repeatPattern = "weekly"
        /\ req[p].fromDate = <<1, 1>> /\ req[p].toDate = <<1, 22>>
        /\ loc[p].i = 21 /\ loc[p].daysDiff = Some(21)
        /\ dateStr(Slot(p)) = <<1, 22>>
        /\ WeekdayOf(bookings[req[p].id].date) # WeekdayOf(req[p].fromDate)

\* The columns a repeat is to copy from its template.
SameCopiedColumns(c, o) ==
    /\ c.roomId = o.roomId
    /\ c.bookingFromTime = o.bookingFromTime
    /\ c.bookingToTime = o.bookingToTime
    /\ c.breakMinutes = o.breakMinutes
    /\ c.customerId = o.customerId
    /\ c.projectId = o.projectId
    /\ c.editorId = o.editorId
    /\ c.contactPerson = o.contactPerson
    /\ c.status = o.status
    /\ c.remarks = o.remarks

\* C14: every booking a repeat request has created has the template's roomId,
\* window, breakMinutes, customerId, projectId, editorId, contactPerson, status
\* and remarks, has the date of its own occurrence (the k-th created booking a
\* later date than the one before, each a date the pattern keeps), and is
\* stored under an id that is not the template's nor any other booking's.
C14_OccurrenceCopiesTemplate ==
    \A p \in Procs :
        (Done(p, "repeat") /\ resp[p].status = 201) =>
            LET o == Val(loc[p].originalBooking)
                created == resp[p].bookings
                dates == {OffsetDate(req[p], j) : j \in KeptOffsets(req[p], loc[p].daysDiff, 0)}
            IN  /\ \A k \in 1..Len(created) :
                      /\ SameCopiedColumns(created[k], o)
                      /\ created[k].date \in dates
                      /\ created[k].id # o.id
                      /\ created[k].id \in 1..Len(bookings)
                      /\ bookings[created[k].id] = created[k]
                      /\ \A j \in 1..Len(bookings) :
                            bookings[j].id = created[k].id => j = created[k].id
                /\ \A k \in 1..(Len(created) - 1) :
                      Val(parseISO(created[k].date)) < Val(parseISO(created[k + 1].date))

\* A repeat of a cancelled template with every column set created a booking on
\* another date.
C14_Witness ==
    \E p \in Procs :
        /\ Done(p, "repeat") /\ resp[p].status = 201 /\ Len(resp[p].bookings) = 1
        /\ LET o == Val(loc[p].originalBooking)
               c == resp[p].bookings[1]
           IN  /\ o.breakMinutes = Some(15) /\ o.customerId = Some(1)
               /\ o.projectId = Some(1) /\ o.editorId = Some(1)
               /\ o.contactPerson = Some("a") /\ o.remarks = Some("x")
               /\ o.status = "Cancelled"
               /\ c.date # o.date
               /\ c.remarks = Some("x") /\ c.status = "Cancelled"

\* C15: the count a repeat request reports with its 201 is the number of rows
\* the request has added to the bookings table, which are the bookings the
\* response carries, and is at most the number of dates the pattern keeps.
C15_CountIsRowsInserted ==
    [][\A p \in Procs :
          (pc[p] = "idle" /\ pc'[p] = "done" /\ req'[p].kind = "repeat"
              /\ resp'[p].status = 201)
          => /\ bookings' = bookings \o resp'[p].bookings
             /\ resp'[p].count = Len(bookings') - Len(bookings)
             /\ resp'[p].count = Len(resp'[p].bookings)
             /\ resp'[p].count
                   <= Cardinality(KeptOffsets(req'[p], loc'[p].daysDiff, 0))]_vars

\* A repeat request over two dates created one booking and skipped the other.
C15_Witness ==
    \E p \in Procs :
        /\ Done(p, "repeat") /\ resp[p].status = 201
        /\ resp[p].count = 1 /\ Len(resp[p].bookings) = 1
        /\ Cardinality(KeptOffsets(req[p], loc[p].daysDiff, 0)) = 2
        /\ resp[p].bookings[1] \in Rows(bookings)

\* The response of the catch block to a storage call that rejected.
StorageFailed(r) == r.message = "storage failure"

\* The loop in slot p has gone on to a later date, or past the last one.
PassedOn(p) ==
    \/ (pc'[p] = "room" /\ loc'[p].i > loc[p].i)
    \/ (pc'[p] = "done" /\ resp'[p].status = 201)

\* C16: in a repeat request, a storage call that rejects (getBooking, the room
\* lookup, the bookings query or the insert) ends the request at once with a
\* failure response that carries no count and no bookings, and writes nothing;
\* the loop passes over a date only for a conflict, and after a response the
\* handler takes no further step.
C16_StorageFailureEndsBatch ==
    [][\A p \in Procs :
          /\ (req[p].kind = "repeat" /\ pc[p] \in {"get", "room", "query", "insert"}
                 /\ pc'[p] = "done" /\ StorageFailed(resp'[p]))
             => /\ resp'[p].status = 400
                /\ resp'[p].count = 0 /\ resp'[p].bookings = <<>>
                /\ loc'[p] = loc[p]
                /\ bookings' = bookings
          /\ (req[p].kind = "repeat" /\ pc[p] \in {"room", "query"}
                 /\ PassedOn(p))
             => loc'[p].hasConflict = Some(TRUE)
          /\ (req[p].kind = "repeat" /\ pc[p] = "insert"
                 /\ PassedOn(p))
             => bookings' = Append(bookings, InsertRow(bookings, Slot(p)))
          /\ pc[p] = "done" => (pc'[p] = "idle" \/ UNCHANGED <<pc[p], loc[p], resp[p]>>)]_vars

\* A repeat request over two dates failed at the first one: it was answered
\* 400 and the second date has no booking.
C16_Witness ==
    \E p \in Procs :
        /\ Done(p, "repeat") /\ StorageFailed(resp[p]) /\ resp[p].status = 400
        /\ IsSome(loc[p].originalBooking)
        /\ KeptOffsets(req[p], loc[p].daysDiff, 0) = {0, 1}
        /\ loc[p].i = 0
        /\ ~\E b \in Rows(bookings) : b.date = OffsetDate(req[p], 1)
        /\ ~TemplateBlocked(p, OffsetDate(req[p], 1))

\* The outcome of a create or update request that was not carried out.
Outcome(p) ==
    IF resp[p].status = 409 /\ loc[p].hasConflict = Some(TRUE) THEN "conflict"
    ELSE IF resp[p].message = "invalid" THEN "invalid input"
    ELSE IF StorageFailed(resp[p]) THEN "storage failure"
    ELSE "other"

\* C17 as stated: of the responses to create and update requests, one blocked
\* by a conflict, one rejected for invalid input and one that met a storage
\* failure never have the same status code.
C17_OutcomesDistinguished ==
    \A p \in Procs, q \in Procs :
        (/\ pc[p] = "done" /\ pc[q] = "done"
         /\ req[p].kind \in {"create", "update"} /\ req[q].kind \in {"create", "update"}
         /\ Outcome(p) # "other" /\ Outcome(q) # "other"
         /\ Outcome(p) # Outcome(q))
        => resp[p].status # resp[q].status

\* The columns a cancellation writes.
CancelColumns == {"isCancelled", "status", "cancelReason"}

\* C18: a cancel request for a booking that exists leaves the table with the
\* same rows under the same ids, the row of that id now with isCancelled true,
\* status Cancelled and the reason, its other columns and all other rows as
\* they were, and answers with that row; for an id that does not exist it
\* changes nothing and answers 404.  No request removes a row of the table.
C18_CancelIsSoftDelete ==
    [][/\ \A p \in Procs :
             (pc[p] = "idle" /\ pc'[p] = "done" /\ req'[p].kind = "cancel") =>
                 LET id == req'[p].id
                 IN  IF id \in 1..Len(bookings)
                     THEN /\ Len(bookings') = Len(bookings)
                          /\ \A k \in 1..Len(bookings) : k # id => bookings'[k] = bookings[k]
                          /\ bookings'[id].isCancelled = TRUE
                          /\ bookings'[id].status = "Cancelled"
                          /\ bookings'[id].cancelReason = Some(req'[p].cancelReason)
                          /\ \A c \in DOMAIN bookings[id] \ CancelColumns :
                                bookings'[id][c] = bookings[id][c]
                          /\ resp'[p].status = 200
                          /\ resp'[p].bookings = <<bookings'[id]>>
                     ELSE /\ bookings' = bookings
                          /\ resp'[p].status = 404
       /\ Len(bookings') >= Len(bookings)
       /\ \A k \in 1..Len(bookings) : bookings'[k].id = bookings[k].id]_vars

\* The first of two live bookings was cancelled; both are still in the table.
C18_Witness ==
    \E p \in Procs :
        /\ Done(p, "cancel") /\ resp[p].status = 200 /\ req[p].id = 1
        /\ Len(bookings) = 2
        /\ bookings[1].isCancelled /\ bookings[1].status = "Cancelled"
        /\ bookings[1].cancelReason = Some(req[p].cancelReason)
        /\ Live(bookings[2])

\* A window that does not end before it starts.
WellFormed(fromTime, toTime) == fromTime <= toTime

\* C19 as stated: the three-way test of the query and the standard test agree
\* for every stored window and every window asked for.
C19_ThreeWayIsStandard ==
    \A b \in Rows(bookings), f \in WideTimes, t \in WideTimes :
        OverlapCondition(b, f, t) <=> ClosedOverlap(b, f, t)

\* C19, amended: for stored windows and windows asked for that do not end
\* before they start, the three-way test of the query agrees with the standard
\* test and is true when the window asked for ends exactly when the stored one
\* begins; accordingly a create for such a window is answered 409 exactly when
\* a live booking of the room and date meets it by the standard test.
C19_ThreeWayIsStandardWhenWellFormed ==
    /\ \A b \in Rows(bookings), f \in WideTimes, t \in WideTimes :
          (WellFormed(b.bookingFromTime, b.bookingToTime) /\ WellFormed(f, t)) =>
              /\ OverlapCondition(b, f, t) <=> ClosedOverlap(b, f, t)
              /\ t = b.bookingFromTime => OverlapCondition(b, f, t)
    /\ \A p \in Procs :
          (/\ Done(p, "create") /\ Checked(p)
           /\ resp[p].status \in {201, 409}
           /\ WellFormed(Val(req[p].body.bookingFromTime), Val(req[p].body.bookingToTime))
           /\ \A a \in Rows(bookings) :
                 WellFormed(a.bookingFromTime, a.bookingToTime))
          => (resp[p].status = 409 <=>
                \E a \in Rows(bookings) :
                    /\ a.id \notin RespIds(p)
                    /\ Live(a)
                    /\ a.roomId = Val(req[p].body.roomId)
                    /\ a.date = Val(req[p].body.date)
                    /\ ClosedOverlap(a, Val(req[p].body.bookingFromTime),
                                     Val(req[p].body.bookingToTime)))

\* A create was answered 409 for a window that ends exactly when the stored
\* booking, of positive length, begins.
C19_Witness ==
    \E p \in Procs :
        /\ Done(p, "create") /\ Checked(p) /\ resp[p].status = 409
        /\ Len(bookings) = 1
        /\ bookings[1].bookingFromTime < bookings[1].bookingToTime
        /\ Val(req[p].body.bookingFromTime) < Val(req[p].body.bookingToTime)
        /\ Val(req[p].body.bookingToTime) = bookings[1].bookingFromTime

\* A live booking of room roomId on date, other than the excluded one, meets
\* the window (in any of the three ways the query tests).
LiveOverlapIn(roomId, date, fromTime, toTime, excludeId) ==
    \E b \in Rows(bookings) :
        /\ b.roomId = roomId
        /\ b.date = date
        /\ Live(b)
        /\ OverlapCondition(b, fromTime, toTime)
        /\ IsSome(excludeId) => b.id # Val(excludeId)

CheckCall(rms, bks, s) ==
    LET looked == StepOf(rms, bks, s)
    IN  IF looked.slot.pc = "query" THEN StepOf(rms, looked.bookings, looked.slot) ELSE looked

\* The create and update requests that call the check.
CheckingRequests ==
    {CreateArrive(body, FALSE) : body \in DetectBodies}
        \cup {UpdateArrive(id, body, FALSE) : id \in 1..Len(bookings), body \in DetectBodies}

Candidates(roomId, date, excludeId) ==
    {b \in Rows(bookings) :
        /\ b.roomId = roomId
        /\ b.date = date
        /\ b.isCancelled = FALSE
        /\ IsSome(excludeId) => b.id # Val(excludeId)}

\* C22 as stated: checkBookingConflict returns true only if a stored booking of
\* the same room and date, not cancelled and not the excluded one, overlaps the
\* window asked for under closed-interval semantics.
C22_NoFalseConflict ==
    AllIdle =>
        \A r \in DetectRooms, d \in ReqDates, f \in Times, t \in Times, ex \in Opt(BookingIds) :
            checkBookingConflict(rooms, bookings, r, d, f, t, ex)
                => \E b \in Candidates(r, d, ex) : ClosedOverlap(b, f, t)

\* C22, amended: checkBookingConflict returns true only if a stored booking of
\* the same room and date, not cancelled and not the excluded one, meets the
\* window asked for in one of the three ways the query tests, which is an
\* overlap under closed-interval semantics when neither window ends before it
\* starts; a create or update is answered 409 only if there is such a booking.
\* Bookings of other rooms, of other dates or cancelled never count.
C22_NoFalseConflictWhenWellFormed ==
    /\ AllIdle =>
          \A r \in DetectRooms, d \in ReqDates, f \in Times, t \in Times,
             ex \in Opt(BookingIds) :
              checkBookingConflict(rooms, bookings, r, d, f, t, ex)
                  => \E b \in Candidates(r, d, ex) :
                        /\ OverlapCondition(b, f, t)
                        /\ (WellFormed(f, t) /\ WellFormed(b.bookingFromTime, b.bookingToTime))
                              => ClosedOverlap(b, f, t)
    /\ \A p \in Procs :
          (pc[p] = "done" /\ req[p].kind \in {"create", "update"} /\ resp[p].status = 409)
          => \E b \in Candidates(Val(req[p].body.roomId), Val(req[p].body.date),
                                 CheckArgs(Slot(p)).excludeId) :
                /\ OverlapCondition(b, Val(req[p].body.bookingFromTime),
                                    Val(req[p].body.bookingToTime))
                /\ (WellFormed(Val(req[p].body.bookingFromTime),
                               Val(req[p].body.bookingToTime))
                      /\ WellFormed(b.bookingFromTime, b.bookingToTime))
                      => ClosedOverlap(b, Val(req[p].body.bookingFromTime),
                                       Val(req[p].body.bookingToTime))

\* An update moved the second booking, in a room that is not flagged, onto the
\* room, date and window of the first, which is cancelled: the check returned
\* false.  Asked again without excludeId, the check returns true for that
\* window, the moved booking being the one behind it.
C22_Witness ==
    \E p \in Procs :
        /\ Done(p, "update") /\ Checked(p) /\ resp[p].status = 200
        /\ loc[p].hasConflict = Some(FALSE)
        /\ ~RoomIgnoresConflict(rooms, resp[p].bookings[1].roomId)
        /\ bookings[1].isCancelled /\ SameWindow(bookings[1], resp[p].bookings[1])
        /\ WellFormed(bookings[2].bookingFromTime, bookings[2].bookingToTime)
        /\ checkBookingConflict(rooms, bookings, bookings[2].roomId, bookings[2].date,
                                bookings[2].bookingFromTime, bookings[2].bookingToTime, None)

\* C24: a create or update that is answered 409 leaves the bookings table as
\* it was: the create has inserted no row, the row the update names keeps every
\* one of its values, and the response carries no booking.
C24_RejectedRequestChangesNothing ==
    [][\A p \in Procs :
          (pc[p] = "idle" /\ pc'[p] = "done" /\ req'[p].kind \in {"create", "update"}
              /\ resp'[p].status = 409)
          => /\ bookings' = bookings
             /\ Len(bookings') = Len(bookings)
             /\ req'[p].kind = "update" => bookings'[req'[p].id] = bookings[req'[p].id]
             /\ resp'[p].bookings = <<>>]_vars

\* An update was answered 409 for a window other than the one its booking
\* has, and the booking still has the window it had.
C24_Witness ==
    \E p \in Procs :
        /\ Done(p, "update") /\ Checked(p) /\ resp[p].status = 409
        /\ loc[p].hasConflict = Some(TRUE)
        /\ req[p].id \in 1..Len(bookings)
        /\ bookings[req[p].id].date # Val(req[p].body.date)
        /\ bookings[req[p].id].bookingToTime # Val(req[p].body.bookingToTime)

\* C25 as stated: with requests served one at a time, no override in any
\* request or room and no window that ends before it starts, no two live
\* bookings of one room and date have windows that overlap.
C25_NoDoubleBooking ==
    \A a \in Rows(bookings), b \in Rows(bookings) : ~DoubleBooked(a, b)

\* C26 as stated: an update without the override that leaves its booking live
\* and overlapping another live booking, in a room that is not flagged, is
\* answered 409 (so none is answered 200).
C26_OverlappingUpdateRejected ==
    \A p \in Procs :
        (/\ Done(p, "update") /\ ~req[p].ignoreConflict
         /\ req[p].id \in 1..Len(bookings)
         /\ ~RoomIgnoresConflict(rooms, Updated(bookings[req[p].id], req[p].body).roomId)
         /\ \E y \in Rows(bookings) :
               DoubleBooked(Updated(bookings[req[p].id], req[p].body), y))
        => resp[p].status = 409

\* C23 as stated, for single bookings: a create or update is persisted without
\* a conflict check exactly when the request carries ignoreConflict = true.
C23_UncheckedOnlyOnRequest ==
    \A p \in Procs :
        (pc[p] = "done" /\ req[p].kind \in {"create", "update"}
            /\ resp[p].status \in {200, 201})
        => (loc[p].hasConflict = None <=> req[p].ignoreConflict)

\* C27 as stated: every stored booking has isCancelled = true exactly when its
\* status is Cancelled.
C27_CancelledIffStatusCancelled ==
    \A b \in Rows(bookings) : b.isCancelled <=> b.status = "Cancelled"

\* C28: every booking a repeat request has created is stored with isCancelled
\* = false and no cancel reason, whatever the template has there, and from then
\* on the conflict check of its room (when not flagged) reports its window on
\* its date as taken.
C28_OccurrencesAreLive ==
    \A p \in Procs :
        (Done(p, "repeat") /\ resp[p].status = 201)
        => \A c \in CreatedRows(p) :
              /\ c \in Rows(bookings)
              /\ c.isCancelled = FALSE
              /\ c.cancelReason = None
              /\ ~RoomIgnoresConflict(rooms, c.roomId)
                    => checkBookingConflict(rooms, bookings, c.roomId, c.date,
                                            c.bookingFromTime, c.bookingToTime, None)

\* A repeat of a cancelled template, whose cancel reason is stored, has created
\* a booking in a room that is not flagged.
C28_Witness ==
    \E p \in Procs :
        /\ Done(p, "repeat") /\ resp[p].status = 201 /\ resp[p].count >= 1
        /\ Val(loc[p].originalBooking).isCancelled
        /\ Val(loc[p].originalBooking).cancelReason = Some("r")
        /\ ~RoomIgnoresConflict(rooms, Val(loc[p].originalBooking).roomId)

\* C29: when a storage call rejects in the middle of a repeat request, the
\* bookings the request has inserted for earlier dates stay in the table, and
\* the response is the failure alone: status 400, no count and no bookings.
C29_FailedBatchIsNotRolledBack ==
    \A p \in Procs :
        (Done(p, "repeat") /\ StorageFailed(resp[p]))
        => /\ \A k \in 1..Len(loc[p].createdBookings) :
                 loc[p].createdBookings[k] \in Rows(bookings)
           /\ resp[p].status = 400
           /\ resp[p].count = 0
           /\ resp[p].bookings = <<>>

\* A repeat request over two dates inserted a booking for the first and failed
\* at the second: the booking is in the table and the response does not carry it.
C29_Witness ==
    \E p \in Procs :
        /\ Done(p, "repeat") /\ StorageFailed(resp[p])
        /\ loc[p].i = 1
        /\ Len(loc[p].createdBookings) = 1
        /\ loc[p].createdBookings[1] \in Rows(bookings)
        /\ loc[p].createdBookings[1].date = OffsetDate(req[p], 0)
        /\ resp[p].bookings = <<>>

\* C30: a repeat request whose repeatPattern is none of daily, weekdays and
\* weekly, or is missing, is not turned down: with toDate not before fromDate
\* the loop reaches the conflict check with fromDate + i days for every i = 0,
\* 1, ..., toDate - fromDate, as for daily, and then answers 201.
C30_UnknownPatternIsDaily ==
    [][\A p \in Procs : \A n \in SpanOf(req[p].fromDate, req[p].toDate) :
          (LoopStep(p) /\ req[p].repeatPattern \notin RepeatPatterns)
          => /\ SelectsNext(p, n, EveryOffset)
             /\ KeptOffsets(req[p], Some(n), 0)
                   = KeptOffsets([req[p] EXCEPT !.repeatPattern = "daily"], Some(n), 0)]_vars

\* The loop of a request with the pattern "monthly" over Monday 1 to Monday 8
\* January has reached Sunday 7 January, offset 6.
C30_Witness ==
    \E p \in Procs :
        /\ pc[p] = "room" /\ req[p].kind = "repeat"
        /\ req[p].repeatPattern = "monthly"
        /\ req[p].fromDate = <<1, 1>> /\ req[p].toDate = <<1, 8>>
        /\ loc[p].i = 6
        /\ dateStr(Slot(p)) = <<1, 7>>

====
